---- MODULE Spec2Model ----
(***************************************************************************)
(* Model of the compliance screening and recruiter-feedback pipeline of    *)
(* the ATS prototype (src/newapp.py).  Texts are sequences of one-character *)
(* strings, so that Python's substring test and str.lower() are computed   *)
(* character by character.                                                 *)
(***************************************************************************)
EXTENDS Integers, Sequences, FiniteSets, TLC

VARIABLES
    text,           \* ScreenSpec: the feedback_text handed to check_compliance
    pieces,         \* ScreenSpec: number of fragments text was composed of
    verdict,        \* ScreenSpec: the dict check_compliance returned for text
    pc,             \* generator: "idle" | "loop" | "returned"
    max_retries,    \* generator: the max_retries argument
    attempt,        \* generator: the loop variable of line 273
    system_prompt,  \* generator: corrective clauses appended to the base prompt
    sent,           \* the generation calls issued so far, with their replies
    result,         \* generator: the dict returned
    generate_btn,   \* feedback tab: value of the generate button in this run
    checks,         \* feedback tab: widget state of the six checklist boxes
    display,        \* feedback tab: what the current render shows
    appended,       \* ScreenSpec: how often each term was appended to violations
    sanitized,      \* ScreenSpec: what sanitize_feedback returned for text
    job_description,    \* the job description an operation is given
    uploaded_files,     \* setup tab: the files of the uploader
    run_pc,             \* setup tab: "idle" | "files" | "ranking" | "done" |
                        \*            "stopped" | "crashed"
    file_i,             \* setup tab: position of the file loop of line 657
    candidate_list_for_ranking, \* setup tab: the list built by the file loop
    warnings,           \* setup tab: names of the files a warning was shown for
    ranked_data,        \* session: st.session_state["ranked_data"]
    rank_pc,            \* rank_candidates: "idle" | "jd" | "resumes" |
                        \*                  "returned" | "raised"
    candidates_data,    \* rank_candidates: the candidates_data argument
    results,            \* rank_candidates: the list `results`
    ranking,            \* rank_candidates: the list returned
    service_log,        \* the cleaning and embedding calls issued so far
    auth,               \* session: st.session_state.auth
    user_name,          \* login page: widget state of the 'Your name' input
    page,               \* session: what the latest script run rendered
    trigger,            \* session: the interaction that started the latest run
    interactions        \* session: number of interactions of the user so far

vars == <<text, pieces, verdict, pc, max_retries, attempt, system_prompt, sent,
          result, generate_btn, checks, display, appended, sanitized,
          job_description, uploaded_files, run_pc, file_i,
          candidate_list_for_ranking, warnings, ranked_data, rank_pc,
          candidates_data, results, ranking, service_log,
         auth, user_name, page, trigger, interactions>>

sessionVars == <<auth, user_name, page, trigger, interactions>>

screenVars == <<text, pieces, verdict, appended, sanitized>>
genVars    == <<pc, max_retries, attempt, system_prompt, sent, result>>
viewVars   == <<generate_btn, checks, display>>
runVars    == <<uploaded_files, run_pc, file_i, candidate_list_for_ranking,
                warnings, ranked_data>>
rankVars   == <<rank_pc, candidates_data, results, ranking, service_log>>

----------------------------------------------------------------------------
(* Python values *)

\* Python's None for a value that is otherwise a text; Some(t) is the text t.
None == <<>>
Some(t) == <<t>>

\* str.lower(), character by character (ASCII letters).
UpperCase == <<"A","B","C","D","E","F","G","H","I","J","K","L","M",
               "N","O","P","Q","R","S","T","U","V","W","X","Y","Z">>
LowerCase == <<"a","b","c","d","e","f","g","h","i","j","k","l","m",
               "n","o","p","q","r","s","t","u","v","w","x","y","z">>

LowerChar(c) ==
    IF \E i \in DOMAIN UpperCase : UpperCase[i] = c
    THEN LowerCase[CHOOSE i \in DOMAIN UpperCase : UpperCase[i] = c]
    ELSE c

lower(s) == [i \in 1..Len(s) |-> LowerChar(s[i])]

\* Python's `sub in s` on strings.
Contains(sub, s) ==
    \E i \in 0..(Len(s) - Len(sub)) : SubSeq(s, i + 1, i + Len(sub)) = sub

----------------------------------------------------------------------------
(* FeedbackComplianceChecker *)

prohibited_terms ==
  {
    \* Age-related
    <<"a","g","e">>,
    <<"y","o","u","n","g">>,
    <<"o","l","d">>,
    <<"m","a","t","u","r","e">>,
    <<"r","e","c","e","n","t"," ","g","r","a","d","u","a","t","e">>,
    <<"r","e","t","i","r","e","m","e","n","t">>,
    <<"y","o","u","t","h","f","u","l">>,
    <<"e","l","d","e","r","l","y">>,
    <<"s","e","n","i","o","r">>,
    <<"j","u","n","i","o","r">>,
    <<"e","x","p","e","r","i","e","n","c","e","d"," ","p","r","o","f","e","s","s","i","o","n","a","l">>,
    \* National origin
    <<"n","a","t","i","v","e">>,
    <<"f","o","r","e","i","g","n">>,
    <<"a","c","c","e","n","t">>,
    <<"i","m","m","i","g","r","a","n","t">>,
    <<"c","i","t","i","z","e","n","s","h","i","p">>,
    <<"v","i","s","a">>,
    <<"w","o","r","k"," ","a","u","t","h","o","r","i","z","a","t","i","o","n">>,
    <<"c","o","u","n","t","r","y"," ","o","f"," ","o","r","i","g","i","n">>,
    \* Gender
    <<"h","e">>,
    <<"s","h","e">>,
    <<"h","i","s">>,
    <<"h","e","r">>,
    <<"h","i","m">>,
    <<"g","e","n","d","e","r">>,
    <<"m","a","n">>,
    <<"w","o","m","a","n">>,
    <<"m","a","s","c","u","l","i","n","e">>,
    <<"f","e","m","i","n","i","n","e">>,
    <<"l","a","d","y">>,
    <<"g","e","n","t","l","e","m","a","n">>,
    \* Disability
    <<"d","i","s","a","b","i","l","i","t","y">>,
    <<"h","a","n","d","i","c","a","p">>,
    <<"d","i","s","a","b","l","e","d">>,
    <<"a","b","l","e","-","b","o","d","i","e","d">>,
    <<"m","e","d","i","c","a","l"," ","c","o","n","d","i","t","i","o","n">>,
    <<"h","e","a","l","t","h">>,
    <<"a","c","c","o","m","m","o","d","a","t","i","o","n">>,
    \* Personal characteristics
    <<"c","u","l","t","u","r","e"," ","f","i","t">>,
    <<"p","e","r","s","o","n","a","l","i","t","y">>,
    <<"e","n","t","h","u","s","i","a","s","m">>,
    <<"a","t","t","i","t","u","d","e">>,
    <<"e","n","e","r","g","y"," ","l","e","v","e","l">>,
    <<"p","a","s","s","i","o","n">>,
    <<"m","o","t","i","v","a","t","e","d">>,
    <<"t","e","a","m"," ","p","l","a","y","e","r">>,
    <<"a","m","b","i","t","i","o","u","s">>,
    \* Family/marital status
    <<"f","a","m","i","l","y">>,
    <<"c","h","i","l","d","r","e","n">>,
    <<"m","a","r","r","i","e","d">>,
    <<"s","i","n","g","l","e">>,
    <<"p","a","r","e","n","t">>,
    <<"s","p","o","u","s","e">>,
    <<"m","a","t","e","r","n","i","t","y">>,
    <<"p","a","t","e","r","n","i","t","y">>,
    \* Religion
    <<"r","e","l","i","g","i","o","u","s">>,
    <<"r","e","l","i","g","i","o","n">>,
    <<"f","a","i","t","h">>,
    <<"c","h","u","r","c","h">>,
    <<"m","o","s","q","u","e">>,
    <<"t","e","m","p","l","e">>,
    \* Race/ethnicity (contextual - may have false positives)
    <<"d","i","v","e","r","s","e">>,
    <<"d","i","v","e","r","s","i","t","y">>,
    <<"m","i","n","o","r","i","t","y">>,
    <<"m","a","j","o","r","i","t","y">>,
    \* Other protected characteristics
    <<"p","r","e","g","n","a","n","t">>,
    <<"p","r","e","g","n","a","n","c","y">>,
    <<"v","e","t","e","r","a","n">>,
    <<"m","i","l","i","t","a","r","y"," ","s","e","r","v","i","c","e">>
  }

allowed_contexts ==
    [ experience |-> { <<"y","e","a","r","s"," ","o","f"," ","e","x","p","e","r","i","e","n","c","e">>,
                       <<"w","o","r","k"," ","e","x","p","e","r","i","e","n","c","e">> },
      technical  |-> { <<"n","a","t","i","v","e"," ","c","o","d","e">>,
                       <<"n","a","t","i","v","e"," ","a","p","p">>,
                       <<"n","a","t","i","v","e"," ","d","e","v","e","l","o","p","m","e","n","t">> } ]

high_severity ==
    { <<"a","g","e">>,
      <<"g","e","n","d","e","r">>,
      <<"d","i","s","a","b","i","l","i","t","y">>,
      <<"r","a","c","e">>,
      <<"r","e","l","i","g","i","o","n">>,
      <<"p","r","e","g","n","a","n","t">>,
      <<"f","a","m","i","l","y">>,
      <<"m","a","r","r","i","e","d">>,
      <<"c","h","i","l","d","r","e","n">> }

\* line 130: `term in feedback_lower`, with the operands exchanged
term_in_text_swapped(term, feedback_lower) == Contains(feedback_lower, term)

\* line 130: `term in feedback_lower`
term_in_text(term, feedback_lower) == Contains(term, feedback_lower)

\* lines 132-137 without the `term in context` conjunct
is_allowed_any_context(term, feedback_lower) ==
    \E category \in DOMAIN allowed_contexts :
        \E context \in allowed_contexts[category] :
            Contains(context, feedback_lower)

\* lines 132-137: the term is excused by an allowed context
is_allowed(term, feedback_lower) ==
    \E category \in DOMAIN allowed_contexts :
        \E context \in allowed_contexts[category] :
            Contains(context, feedback_lower) /\ Contains(term, context)

\* lines 127-140: the list holds each term of the set at most once, in the
\* set's iteration order, which the program does not fix; modelled as a set.
violations_of(feedback_lower) ==
    { term \in prohibited_terms :
        term_in_text(term, feedback_lower) /\ ~is_allowed(term, feedback_lower) }

\* lines 129-140: the loop visits every term of the set once, so a term is
\* appended to `violations` once if it is a violation and not at all otherwise
times_appended(term, feedback_lower) ==
    IF term_in_text(term, feedback_lower) /\ ~is_allowed(term, feedback_lower)
    THEN 1 ELSE 0

\* lines 127-140: the list `violations` as a bag, term |-> number of appends
violations_bag(feedback_lower) ==
    [ term \in { t \in prohibited_terms : times_appended(t, feedback_lower) > 0 }
        |-> times_appended(term, feedback_lower) ]

\* line 148 with all() for any()
severity_of_all_high(violations) ==
    IF violations = {} THEN "none"
    ELSE IF \A term \in violations : term \in high_severity THEN "high"
    ELSE "low"

\* lines 143-151
severity_of(violations) ==
    IF violations = {} THEN "none"
    ELSE IF \E term \in violations : term \in high_severity THEN "high"
    ELSE "low"

\* lines 154-159
recommendation_of(severity) ==
    IF severity = "none" THEN "Feedback passed compliance check."
    ELSE IF severity = "low"
    THEN "Review feedback for soft skills language. Consider focusing only on technical qualifications."
    ELSE "CRITICAL: Feedback contains prohibited discriminatory language. Do not send. Regenerate with stricter constraints."

\* lines 115-166
check_compliance(feedback_text) ==
    LET feedback_lower == lower(feedback_text)
        violations     == violations_of(feedback_lower)
        severity       == severity_of(violations)
    IN  [ compliant      |-> violations = {},
          violations     |-> violations,
          severity       |-> severity,
          recommendation |-> recommendation_of(severity) ]

\* line 184 with a marker that speaks of "language"
Placeholder_language == <<"<","!","-","-"," ","L","a","n","g","u","a","g","e"," ","r","e","m","o","v","e","d"," ","-","-",">">>

\* line 184: the marker that replaces a line
Placeholder == <<"<","!","-","-"," ","L","i","n","e"," ","r","e","m","o","v","e","d"," ","f","o","r"," ","c","o","m","p","l","i","a","n","c","e"," ","-","-",">">>

\* position of the first "\n" of s (s holds one)
FirstNewline(s) ==
    CHOOSE i \in 1..Len(s) : s[i] = "\n" /\ \A j \in 1..(i - 1) : s[j] # "\n"

\* line 173: feedback_text.split('\n')
RECURSIVE split_lines(_)
split_lines(s) ==
    IF \A i \in 1..Len(s) : s[i] # "\n"
    THEN << s >>
    ELSE << SubSeq(s, 1, FirstNewline(s) - 1) >>
             \o split_lines(SubSeq(s, FirstNewline(s) + 1, Len(s)))

\* line 186: '\n'.join(sanitized_lines)
RECURSIVE join_lines(_)
join_lines(lines) ==
    IF Len(lines) = 0 THEN <<>>
    ELSE IF Len(lines) = 1 THEN lines[1]
    ELSE lines[1] \o << "\n" >> \o join_lines(Tail(lines))

\* line 178 asking check_compliance, which honours the allow-list
has_violation_unless_allowed(line) == violations_of(lower(line)) # {}

\* lines 177-178: some prohibited term occurs in the lower-cased line
has_violation(line) ==
    \E term \in prohibited_terms : Contains(term, lower(line))

\* lines 168-186
sanitize_feedback(feedback_text) ==
    LET lines == split_lines(feedback_text)
        sanitized_lines ==
            [ i \in 1..Len(lines) |->
                IF ~has_violation(lines[i]) THEN lines[i] ELSE Placeholder ]
    IN  join_lines(sanitized_lines)

----------------------------------------------------------------------------
(* Texts the screener and the generation service are exercised with *)

TxtEmpty         == <<>>
TxtRace          == <<"r","a","c","e">>
TxtAge           == <<"A","g","e">>
TxtNativeSpeaker == <<"n","a","t","i","v","e"," ","s","p","e","a","k","e","r">>
TxtNativeApp     == <<"n","a","t","i","v","e"," ","a","p","p">>
TxtTeamPlayer    == <<"t","e","a","m"," ","p","l","a","y","e","r">>
TxtEnthusiastic  == <<"e","n","t","h","u","s","i","a","s","t","i","c">>
TxtYearsJava     == <<"5"," ","y","e","a","r","s"," ","o","f"," ","e","x","p","e","r","i","e","n","c","e"," ","w","i","t","h"," ","J","a","v","a">>
TxtSQL           == <<"S","Q","L">>
TxtSep           == <<";"," ">>
TxtSQLLine       == <<"S","Q","L","\n">>
TxtTeamBreakPlayer == <<"t","e","a","m","\n","p","l","a","y","e","r">>
TermExperience   == <<"e","x","p","e","r","i","e","n","c","e">>
TermNative       == <<"n","a","t","i","v","e">>

Fragments ==
    { TxtRace, TxtAge, TxtNativeSpeaker, TxtNativeApp, TxtTeamPlayer,
      TxtEnthusiastic, TxtYearsJava, TxtSQL, TxtSep, TxtSQLLine,
      TxtTeamBreakPlayer }

\* a text is composed of at most MaxPieces fragments
MaxPieces == 2

----------------------------------------------------------------------------
(* Values of the variables a specification does not use *)

NoVerdict ==
    [ compliant |-> FALSE, violations |-> {}, severity |-> "unset",
      recommendation |-> "" ]

NoResult ==
    [ feedback |-> None, compliant |-> FALSE, violations |-> {},
      severity |-> "unset", recommendation |-> "", error |-> "unset" ]

ChecklistItems == 1..6

Blank ==
    [ status |-> "none", detected |-> {}, recommendation |-> "",
      draft |-> None, checklist |-> FALSE,
      ticked |-> [i \in ChecklistItems |-> FALSE],
      confirmed |-> FALSE, download |-> FALSE, mark_ready |-> FALSE,
      error |-> "None" ]

ScreenIdle ==
    /\ text = <<>> /\ pieces = 0 /\ verdict = NoVerdict
    /\ appended = <<>> /\ sanitized = None

RunIdle ==
    /\ uploaded_files = <<>> /\ run_pc = "idle" /\ file_i = 0
    /\ candidate_list_for_ranking = <<>> /\ warnings = {}
    /\ ranked_data = None

RankIdle ==
    /\ rank_pc = "idle" /\ candidates_data = <<>> /\ results = <<>>
    /\ ranking = None /\ service_log = <<>>

\* lines 18-22 and 46-50: the auth record of a session nobody is logged in to
NoRole == "None"

LoggedOut ==
    [ is_authenticated |-> FALSE, user_name |-> None, role |-> NoRole ]

SessionIdle ==
    /\ auth = LoggedOut /\ user_name = <<>> /\ page = "login"
    /\ trigger = "none" /\ interactions = 0

GenIdle ==
    /\ job_description = <<>>
    /\ pc = "idle" /\ max_retries = 0 /\ attempt = 0
    /\ system_prompt = <<>> /\ sent = <<>> /\ result = NoResult

ViewIdle ==
    /\ generate_btn = FALSE
    /\ checks = [i \in ChecklistItems |-> FALSE]
    /\ display = Blank

----------------------------------------------------------------------------
(* ScreenSpec: check_compliance applied to bounded texts *)

ScreenInit == ScreenIdle /\ GenIdle /\ ViewIdle /\ RunIdle /\ RankIdle /\ SessionIdle

\* the caller builds the text to be screened
Compose(f) ==
    /\ pieces < MaxPieces
    /\ text' = text \o f
    /\ pieces' = pieces + 1
    /\ verdict' = NoVerdict
    /\ appended' = <<>>
    /\ sanitized' = None
    /\ UNCHANGED <<genVars, viewVars, runVars, rankVars, job_description>>
    /\ UNCHANGED sessionVars

\* checker.check_compliance(text)
Screen ==
    /\ verdict = NoVerdict
    /\ verdict' = check_compliance(text)
    /\ appended' = violations_bag(lower(text))
    /\ UNCHANGED <<text, pieces, sanitized, genVars, viewVars, runVars,
                   rankVars, job_description>>
    /\ UNCHANGED sessionVars

\* checker.sanitize_feedback(text)
Sanitize ==
    /\ sanitized = None
    /\ sanitized' = Some(sanitize_feedback(text))
    /\ UNCHANGED <<text, pieces, verdict, appended, genVars, viewVars, runVars,
                   rankVars, job_description>>
    /\ UNCHANGED sessionVars

ScreenNext == (\E f \in Fragments : Compose(f)) \/ Screen \/ Sanitize

ScreenSpec == ScreenInit /\ [][ScreenNext]_vars

----------------------------------------------------------------------------
(* generate_compliant_feedback_for_recruiter *)

\* texts the generation service may return as message.content
GenTexts ==
    { TxtSQL, TxtEmpty, TxtEnthusiastic, TxtNativeSpeaker, TxtTeamPlayer, TxtAge }

\* job descriptions an operation is given: empty, blank, and a real one
JDSpaces == <<" "," ">>
JDCfo    == <<"C","F","O">>
JobDescriptions == { TxtEmpty, JDSpaces, JDCfo }

\* `not s.strip()`: the text holds nothing but whitespace
Whitespace == { " ", "\n", "\t" }
IsBlank(s) == \A i \in 1..Len(s) : s[i] \in Whitespace

\* the largest retry limit the function is invoked with
MaxRetryLimit == 2

\* values of the max_retries argument; -1 makes range(max_retries + 1) empty
RetryLimits == (0 - 1)..MaxRetryLimit

\* line 194: max_retries: int = 2
DefaultMaxRetries == 2

\* Python's None for the 'error' field, which is otherwise a message
NoError == "None"

\* line 273 with range(max_retries + 2)
in_range_one_more(a, mr) == a < mr + 2

\* line 273: `attempt` is drawn from range(max_retries + 1)
in_range(a, mr) == a < mr + 1

\* line 301 with `attempt <= max_retries`
retries_left_inclusive(a, mr) == a <= mr

\* line 301: `attempt < max_retries`
retries_left(a, mr) == a < mr

\* lines 291-298: the dict returned for a compliant text
accepted_result(feedback) ==
    [ feedback       |-> Some(feedback),
      compliant      |-> TRUE,
      violations     |-> {},
      severity       |-> "none",
      recommendation |-> "Feedback passed compliance check.",
      error          |-> NoError ]

\* lines 307-314 with the constants of lines 291-298 pasted for the verdict
exhausted_result_pasted(feedback, compliance_result) ==
    [ feedback       |-> Some(feedback),
      compliant      |-> FALSE,
      violations     |-> {},
      severity       |-> "none",
      recommendation |-> "Feedback passed compliance check.",
      error          |-> NoError ]

\* lines 307-314: the dict returned when the retries are used up
exhausted_result(feedback, compliance_result) ==
    [ feedback       |-> Some(feedback),
      compliant      |-> FALSE,
      violations     |-> compliance_result.violations,
      severity       |-> compliance_result.severity,
      recommendation |-> compliance_result.recommendation,
      error          |-> NoError ]

\* lines 317-324 with the error left unset
api_error_result_no_error ==
    [ feedback |-> None, compliant |-> FALSE, violations |-> {},
      severity |-> "none", recommendation |-> "", error |-> NoError ]

\* lines 317-324: the dict returned when the call raised
api_error_result ==
    [ feedback |-> None, compliant |-> FALSE, violations |-> {},
      severity |-> "none", recommendation |-> "", error |-> "API Error" ]

\* lines 326-333: the dict returned when the loop ends without a return
fallthrough_result ==
    [ feedback |-> None, compliant |-> FALSE, violations |-> {},
      severity |-> "none", recommendation |-> "",
      error |-> "Failed to generate compliant feedback after maximum retries" ]

\* lines 261-271: the user prompt embeds the job description and the resume;
\* the cleaned_resume argument is the same text throughout
user_prompt(jd) == [ job_description |-> jd, cleaned_resume |-> "CANDIDATE RESUME" ]

\* line 303 with `=` for `+=`: the clause replaces what was appended before
escalated_replacing(prompt, violations) == << violations >>

\* line 303: the corrective clause is appended to the running system prompt
escalated(prompt, violations) == Append(prompt, violations)

\* lines 214-273: entry with the argument mr, up to the head of the loop
Call(mr) ==
    /\ pc # "loop"
    /\ pc' = "loop"
    /\ max_retries' = mr
    /\ attempt' = 0
    /\ system_prompt' = <<>>
    /\ sent' = <<>>
    /\ result' = NoResult

Invoke(mr) ==
    /\ Call(mr)
    /\ job_description' \in JobDescriptions
    /\ UNCHANGED <<screenVars, viewVars, runVars, rankVars>>
    /\ UNCHANGED sessionVars

\* lines 275-314: the call returns `content`; the text is screened and the
\* attempt accepted, retried with a longer system prompt, or given up
GenerationReturns(content) ==
    /\ pc = "loop"
    /\ in_range(attempt, max_retries)
    /\ sent' = Append(sent, [ system |-> system_prompt,
                              user   |-> user_prompt(job_description),
                              reply  |-> Some(content) ])
    /\ LET feedback          == content
           compliance_result == check_compliance(feedback)
       IN  IF compliance_result.compliant
           THEN /\ result' = accepted_result(feedback)
                /\ pc' = "returned"
                /\ UNCHANGED <<attempt, system_prompt>>
           ELSE IF retries_left(attempt, max_retries)
           THEN /\ system_prompt' =
                       escalated(system_prompt, compliance_result.violations)
                /\ attempt' = attempt + 1
                /\ UNCHANGED <<pc, result>>
           ELSE /\ result' = exhausted_result(feedback, compliance_result)
                /\ pc' = "returned"
                /\ UNCHANGED <<attempt, system_prompt>>
    /\ UNCHANGED <<max_retries, screenVars, viewVars,
                   runVars, rankVars, job_description>>
    /\ UNCHANGED sessionVars

\* lines 275-283, 316-324: the call raises; nothing is retried
GenerationFails ==
    /\ pc = "loop"
    /\ in_range(attempt, max_retries)
    /\ sent' = Append(sent, [ system |-> system_prompt,
                              user   |-> user_prompt(job_description),
                              reply  |-> None ])
    /\ result' = api_error_result
    /\ pc' = "returned"
    /\ UNCHANGED <<max_retries, attempt, system_prompt, screenVars, viewVars,
                   runVars, rankVars, job_description>>
    /\ UNCHANGED sessionVars

\* lines 273, 326-333: range(max_retries + 1) is used up
LoopEnds ==
    /\ pc = "loop"
    /\ ~in_range(attempt, max_retries)
    /\ result' = fallthrough_result
    /\ pc' = "returned"
    /\ UNCHANGED <<max_retries, attempt, system_prompt, sent, screenVars, viewVars,
                   runVars, rankVars, job_description>>
    /\ UNCHANGED sessionVars

Init == ScreenIdle /\ GenIdle /\ ViewIdle /\ RunIdle /\ RankIdle /\ SessionIdle

Next ==
    \/ \E mr \in RetryLimits : Invoke(mr)
    \/ \E content \in GenTexts : GenerationReturns(content)
    \/ GenerationFails
    \/ LoopEnds

Spec == Init /\ [][Next]_vars

----------------------------------------------------------------------------
(* The feedback tab of the recruiter workspace (tab_feedback), rendered    *)
(* with a ranking in the session and a candidate selected.  Every widget   *)
(* interaction reruns the script; a button is True only in the run its     *)
(* click starts, and a widget that a run does not create loses its state.  *)

AllUnchecked == [i \in ChecklistItems |-> FALSE]

\* Python truthiness of result["feedback"]: neither None nor ""
Truthy(feedback) == feedback # None /\ feedback # Some(TxtEmpty)

\* lines 778-786 deciding on result["severity"] instead of result["compliant"]
status_shown_by_severity(r) ==
    IF r.severity = "none" THEN "Passed"
    ELSE IF r.severity = "low" THEN "Potential issues"
    ELSE "Critical issues"

\* lines 778-786: the banner of the compliance check
status_shown(r) ==
    IF r.compliant THEN "Passed"
    ELSE IF r.severity = "low" THEN "Potential issues"
    ELSE "Critical issues"

\* line 808 without the checklist
all_checked_skipped(boxes) == TRUE

\* line 808: all([check1, ..., check6])
all_checked(boxes) == \A i \in ChecklistItems : boxes[i]

\* lines 775-831: what the run shows for `result`, the six checkboxes
\* returning `boxes`
render_result(r, boxes) ==
    [ status         |-> status_shown(r),
      detected       |-> IF r.compliant THEN {} ELSE r.violations,
      recommendation |-> IF r.compliant THEN "" ELSE r.recommendation,
      draft          |-> IF Truthy(r.feedback) THEN r.feedback ELSE None,
      checklist      |-> Truthy(r.feedback),
      ticked         |-> IF Truthy(r.feedback) THEN boxes ELSE AllUnchecked,
      confirmed      |-> Truthy(r.feedback) /\ all_checked(boxes),
      download       |-> Truthy(r.feedback) /\ all_checked(boxes),
      mark_ready     |-> Truthy(r.feedback) /\ all_checked(boxes),
      error          |-> IF ~Truthy(r.feedback) /\ r.error # NoError
                         THEN r.error ELSE NoError ]

\* lines 762-773: the click on 'Generate compliant draft' starts a run in
\* which generate_btn is True and the function is called with its default
\* max_retries; the checkboxes keep their state only if the previous run
\* created them
ClickGenerate ==
    /\ Call(DefaultMaxRetries)
    /\ generate_btn' = TRUE
    /\ checks' = IF display.checklist THEN checks ELSE AllUnchecked
    /\ display' = Blank
    /\ job_description' \in JobDescriptions
    /\ UNCHANGED <<screenVars, runVars, rankVars>>
    /\ UNCHANGED sessionVars

\* lines 775-831: the function has returned; the run shows the result
ShowResult ==
    /\ generate_btn
    /\ pc = "returned"
    /\ display = Blank
    /\ display' = render_result(result, checks)
    /\ UNCHANGED <<generate_btn, checks, screenVars, genVars, runVars,
                   rankVars, job_description>>
    /\ UNCHANGED sessionVars

\* lines 768, 800-806: ticking a checkbox starts a run in which generate_btn
\* is False, so nothing under line 768 is created
TickCheckbox(i) ==
    /\ display.checklist
    /\ checks' = [checks EXCEPT ![i] = ~checks[i]]
    /\ generate_btn' = FALSE
    /\ display' = Blank
    /\ UNCHANGED <<screenVars, genVars, runVars,
                   rankVars, job_description>>
    /\ UNCHANGED sessionVars

\* lines 743-768: another interaction (for instance choosing a candidate)
\* also starts a run in which generate_btn is False
OtherInteraction ==
    /\ pc # "loop"
    /\ display # Blank
    /\ generate_btn' = FALSE
    /\ display' = Blank
    /\ UNCHANGED <<checks, screenVars, genVars, runVars,
                   rankVars, job_description>>
    /\ UNCHANGED sessionVars

ViewInit == ScreenIdle /\ GenIdle /\ ViewIdle /\ RunIdle /\ RankIdle /\ SessionIdle

ViewNext ==
    \/ ClickGenerate
    \/ \E content \in GenTexts : GenerationReturns(content)
    \/ GenerationFails
    \/ ShowResult
    \/ \E i \in ChecklistItems : TickCheckbox(i)
    \/ OtherInteraction

ViewSpec == ViewInit /\ [][ViewNext]_vars

----------------------------------------------------------------------------
(* rank_candidates (src/newats_engine.py) *)

\* resume texts: what clean_and_structure_resume returns, the cleaned text
\* (line 98) or the error-annotated string (line 100)
ResumeCleaned == << "[SUMMARY] [SKILLS] [EXPERIENCE] [EDUCATION]" >>
CleaningError == << "Error during cleaning: ..." >>

FileNames == { "cv.pdf", "cv.docx", "notes.txt" }

\* at most MaxCandidates candidates are ranked
MaxCandidates == 3

\* the similarity scores an embedding can lead to, as ranks 0..MaxScore
MaxScore == 1
Scores == 0..MaxScore

CandidateInputs ==
    [ name : { "cv.pdf", "cv.docx" }, resume : { ResumeCleaned, CleaningError } ]

SeqsUpTo(S, n) == UNION { [1..k -> S] : k \in 0..n }

\* one call of get_embedding (lines 106-111)
EmbeddingCall(of, index, input, ok) ==
    [ service |-> "embedding", of |-> of, index |-> index, text |-> input,
      ok |-> ok ]

\* lines 125-128 with the failing candidate skipped and the loop going on
after_embedding_error_go_on == "resumes"

\* lines 108-111: get_embedding has no handler, the exception leaves
\* rank_candidates
after_embedding_error == "raised"

\* line 130 as an ascending sort that is reversed: ties come out reversed
RECURSIVE insert_before_ties(_, _)
insert_before_ties(sorted, x) ==
    IF sorted = <<>> THEN << x >>
    ELSE IF Head(sorted).score > x.score
    THEN << Head(sorted) >> \o insert_before_ties(Tail(sorted), x)
    ELSE << x >> \o sorted

\* line 130: where list.sort(key=score, reverse=True), which is stable, puts
\* x among the entries that came before it
RECURSIVE insert_by_score(_, _)
insert_by_score(sorted, x) ==
    IF sorted = <<>> THEN << x >>
    ELSE IF Head(sorted).score >= x.score
    THEN << Head(sorted) >> \o insert_by_score(Tail(sorted), x)
    ELSE << x >> \o sorted

\* line 130: results.sort(key=lambda x: x["score"], reverse=True)
RECURSIVE sort_by_score(_)
sort_by_score(list) ==
    IF list = <<>> THEN <<>>
    ELSE insert_by_score(sort_by_score(SubSeq(list, 1, Len(list) - 1)),
                         list[Len(list)])

\* lines 121-123: entry, before the job description is embedded
RankCall(jd, cands) ==
    /\ rank_pc' = "jd"
    /\ job_description' = jd
    /\ candidates_data' = cands
    /\ results' = <<>>
    /\ ranking' = None

RankInvoke(jd, cands) ==
    /\ rank_pc = "idle"
    /\ RankCall(jd, cands)
    /\ service_log' = <<>>
    /\ UNCHANGED <<screenVars, genVars, viewVars, runVars>>
    /\ UNCHANGED sessionVars

\* line 122: jd_vec = get_embedding(job_description)
EmbedJobDescription(ok) ==
    /\ rank_pc = "jd"
    /\ service_log' = Append(service_log,
           EmbeddingCall("job_description", 0, job_description, ok))
    /\ rank_pc' = IF ok THEN "resumes" ELSE after_embedding_error
    /\ UNCHANGED <<candidates_data, results, ranking, job_description,
                   screenVars, genVars, viewVars, runVars>>
    /\ UNCHANGED sessionVars

\* lines 125-128: the next candidate's resume is embedded and scored
EmbedResume(ok, score) ==
    /\ rank_pc = "resumes"
    /\ Len(results) < Len(candidates_data)
    /\ LET c == candidates_data[Len(results) + 1]
       IN  /\ service_log' = Append(service_log,
                  EmbeddingCall("resume", Len(results) + 1, c.resume, ok))
           /\ IF ok
              THEN /\ results' = Append(results,
                          [ name |-> c.name, score |-> score,
                            resume |-> c.resume ])
                   /\ UNCHANGED rank_pc
              ELSE /\ rank_pc' = after_embedding_error
                   /\ UNCHANGED results
    /\ UNCHANGED <<candidates_data, ranking, job_description,
                   screenVars, genVars, viewVars, runVars>>
    /\ UNCHANGED sessionVars

\* lines 130-131: the loop is over; sort and return
SortAndReturn ==
    /\ rank_pc = "resumes"
    /\ Len(results) = Len(candidates_data)
    /\ ranking' = Some(sort_by_score(results))
    /\ rank_pc' = "returned"
    /\ UNCHANGED <<candidates_data, results, service_log, job_description,
                   screenVars, genVars, viewVars, runVars>>
    /\ UNCHANGED sessionVars

RankInit == ScreenIdle /\ GenIdle /\ ViewIdle /\ RunIdle /\ RankIdle /\ SessionIdle

RankNext ==
    \/ \E jd \in JobDescriptions :
          \E cands \in SeqsUpTo(CandidateInputs, MaxCandidates) :
              RankInvoke(jd, cands)
    \/ \E ok \in BOOLEAN : EmbedJobDescription(ok)
    \/ \E ok \in BOOLEAN : \E score \in Scores : EmbedResume(ok, score)
    \/ SortAndReturn

RankSpec == RankInit /\ [][RankNext]_vars

----------------------------------------------------------------------------
(* The ranking run of the setup tab (tab_setup, 'Run ranking engine') *)

\* what a file holds: text, no text at all, or bytes its parser rejects
FileContents == { "text", "no text", "corrupt" }

UploadedFiles == [ name : FileNames, content : FileContents ]

\* at most MaxFiles files are uploaded
MaxFiles == 2

\* lines 658-667: the branch the lower-cased file name selects
file_kind(name) ==
    IF name = "cv.pdf" THEN "pdf"
    ELSE IF name = "cv.docx" THEN "docx"
    ELSE "unsupported"

\* the text extract_text_from_pdf / extract_text_from_docx returns
RawText == << "raw resume text" >>

\* one call of clean_and_structure_resume (engine lines 81-100)
CleaningCall(index, input, ok) ==
    [ service |-> "cleaning", of |-> "resume", index |-> index,
      text |-> input, ok |-> ok ]

\* lines 645-655: the click starts a run in which start_ranking is True
ClickRunRanking(jd, files) ==
    /\ run_pc = "idle"
    /\ job_description' = jd
    /\ uploaded_files' = files
    /\ candidate_list_for_ranking' = <<>>
    /\ warnings' = {}
    /\ IF IsBlank(jd) \/ files = <<>>
       THEN run_pc' = "stopped" /\ file_i' = 0
       ELSE run_pc' = "files" /\ file_i' = 1
    /\ UNCHANGED <<ranked_data, rankVars, screenVars, genVars, viewVars>>
    /\ UNCHANGED sessionVars

\* lines 657-676: one pass of the file loop; cleaning_ok is the outcome of
\* the cleaning call, when the pass gets that far
ProcessFile(cleaning_ok) ==
    /\ run_pc = "files"
    /\ file_i <= Len(uploaded_files)
    /\ LET file == uploaded_files[file_i]
       IN  IF file_kind(file.name) = "unsupported"
           THEN /\ warnings' = warnings \cup { file.name }
                /\ file_i' = file_i + 1
                /\ UNCHANGED <<run_pc, candidate_list_for_ranking, service_log>>
           ELSE IF file.content = "corrupt"
           THEN /\ run_pc' = "crashed"
                /\ UNCHANGED <<file_i, warnings, candidate_list_for_ranking,
                               service_log>>
           ELSE IF file.content = "no text"
           THEN /\ file_i' = file_i + 1
                /\ UNCHANGED <<run_pc, warnings, candidate_list_for_ranking,
                               service_log>>
           ELSE /\ service_log' = Append(service_log,
                       CleaningCall(file_i, RawText, cleaning_ok))
                /\ candidate_list_for_ranking' =
                       Append(candidate_list_for_ranking,
                              [ name   |-> file.name,
                                resume |-> IF cleaning_ok THEN ResumeCleaned
                                           ELSE CleaningError ])
                /\ file_i' = file_i + 1
                /\ UNCHANGED <<run_pc, warnings>>
    /\ UNCHANGED <<uploaded_files, ranked_data, rank_pc, candidates_data,
                   results, ranking, job_description, screenVars, genVars,
                   viewVars>>
    /\ UNCHANGED sessionVars

\* lines 678-684: after the loop, rank_candidates is called if the list is
\* not empty
EndOfFiles ==
    /\ run_pc = "files"
    /\ file_i > Len(uploaded_files)
    /\ IF candidate_list_for_ranking # <<>>
       THEN /\ RankCall(job_description, candidate_list_for_ranking)
            /\ run_pc' = "ranking"
       ELSE /\ run_pc' = "done"
            /\ UNCHANGED <<rank_pc, candidates_data, results, ranking,
                           job_description>>
    /\ UNCHANGED <<uploaded_files, file_i, candidate_list_for_ranking, warnings,
                   ranked_data, service_log, screenVars, genVars, viewVars>>
    /\ UNCHANGED sessionVars

\* line 681: st.session_state["ranked_data"] = ranking_results
StoreRanking ==
    /\ run_pc = "ranking"
    /\ rank_pc = "returned"
    /\ ranked_data' = ranking
    /\ run_pc' = "done"
    /\ UNCHANGED <<uploaded_files, file_i, candidate_list_for_ranking, warnings,
                   rankVars, job_description, screenVars, genVars, viewVars>>
    /\ UNCHANGED sessionVars

\* line 680: an exception of rank_candidates ends the run
RankingRaised ==
    /\ run_pc = "ranking"
    /\ rank_pc = "raised"
    /\ run_pc' = "crashed"
    /\ UNCHANGED <<uploaded_files, file_i, candidate_list_for_ranking, warnings,
                   ranked_data, rankVars, job_description, screenVars, genVars,
                   viewVars>>
    /\ UNCHANGED sessionVars

RunInit == ScreenIdle /\ GenIdle /\ ViewIdle /\ RunIdle /\ RankIdle /\ SessionIdle

RunNext ==
    \/ \E jd \in JobDescriptions :
          \E files \in SeqsUpTo(UploadedFiles, MaxFiles) :
              ClickRunRanking(jd, files)
    \/ \E cleaning_ok \in BOOLEAN : ProcessFile(cleaning_ok)
    \/ EndOfFiles
    \/ \E ok \in BOOLEAN : EmbedJobDescription(ok)
    \/ \E ok \in BOOLEAN : \E score \in Scores : EmbedResume(ok, score)
    \/ SortAndReturn
    \/ StoreRanking
    \/ RankingRaised

RunSpec == RunInit /\ [][RunNext]_vars

----------------------------------------------------------------------------
(* The session: login gate, sidebar and workspaces of the whole script *)

TxtSpace == <<" ">>
TxtAnn   == <<"A","n","n">>
TxtBo    == <<" ","B","o"," ">>
TxtAnnNewline == <<"A","n","n","\n">>
TxtTabCy == <<"\t","C","y">>

\* what the user types into 'Your name'
NameInputs == { TxtEmpty, TxtSpace, TxtAnn, TxtBo, TxtAnnNewline, TxtTabCy }

\* the widgets of a workspace page the user may operate
Widgets == { "Logout", "I am a:", "other" }

\* the user operates at most MaxInteractions widgets
MaxInteractions == 10

\* str.strip()
RECURSIVE lstrip(_)
lstrip(s) ==
    IF s # <<>> /\ s[1] \in Whitespace THEN lstrip(Tail(s)) ELSE s

RECURSIVE rstrip(_)
rstrip(s) ==
    IF s # <<>> /\ s[Len(s)] \in Whitespace
    THEN rstrip(SubSeq(s, 1, Len(s) - 1))
    ELSE s

strip(s) == rstrip(lstrip(s))

\* lines 517-522: the radio 'I am a:' starts on Recruiter unless the stored
\* role is Applicant, and its value is stored as the role
sidebar_role(a) ==
    [a EXCEPT !.role = IF a.role # "Applicant" THEN "Recruiter"
                       ELSE "Applicant"]

\* lines 45-50, called at line 526 in every run that passes the login gate,
\* whatever st.button("Logout") of line 525 returned
logout(a) == LoggedOut

\* lines 582-583, 839: the workspace is chosen on the stored role
workspace(a) == IF a.role = "Recruiter" THEN "recruiter" ELSE "applicant"

\* lines 435-437 and 512-526: one run of the script from the top
ScriptRun ==
    IF ~auth.is_authenticated
    THEN /\ page' = "login"
         /\ UNCHANGED <<auth, ranked_data, job_description>>
    ELSE /\ auth' = logout(sidebar_role(auth))
         /\ ranked_data' = None
         /\ job_description' = <<>>
         /\ page' = workspace(auth')

\* lines 33, 435-437: typing a name reruns the script, which shows the login
\* page again
TypeName(n) ==
    /\ page \in { "login", "login error" }
    /\ interactions < MaxInteractions
    /\ n # user_name
    /\ user_name' = n
    /\ trigger' = "Your name"
    /\ interactions' = interactions + 1
    /\ ScriptRun
    /\ UNCHANGED <<screenVars, genVars, viewVars, uploaded_files, run_pc,
                   file_i, candidate_list_for_ranking, warnings, rankVars>>

\* lines 34-41: the run in which 'Continue' is True
ClickContinue ==
    /\ page \in { "login", "login error" }
    /\ interactions < MaxInteractions
    /\ trigger' = "Continue"
    /\ interactions' = interactions + 1
    /\ IF strip(user_name) = <<>>
       THEN /\ page' = "login error"
            /\ UNCHANGED auth
       ELSE /\ auth' = [auth EXCEPT !.is_authenticated = TRUE,
                                    !.user_name = Some(strip(user_name))]
            /\ page' = "rerun"
    /\ UNCHANGED <<user_name, ranked_data, job_description, screenVars,
                   genVars, viewVars, uploaded_files, run_pc, file_i,
                   candidate_list_for_ranking, warnings, rankVars>>

\* line 41: the run that rerun() starts; the login page is gone
RerunAfterLogin ==
    /\ page = "rerun"
    /\ trigger' = "rerun"
    /\ user_name' = <<>>
    /\ ScriptRun
    /\ UNCHANGED <<interactions, screenVars, genVars, viewVars,
                   uploaded_files, run_pc, file_i,
                   candidate_list_for_ranking, warnings, rankVars>>

\* operating a widget of a workspace page reruns the script
Interact(w) ==
    /\ page \in { "recruiter", "applicant" }
    /\ interactions < MaxInteractions
    /\ trigger' = w
    /\ interactions' = interactions + 1
    /\ ScriptRun
    /\ UNCHANGED <<user_name, screenVars, genVars, viewVars,
                   uploaded_files, run_pc, file_i,
                   candidate_list_for_ranking, warnings, rankVars>>

SessionInit ==
    ScreenIdle /\ GenIdle /\ ViewIdle /\ RunIdle /\ RankIdle /\ SessionIdle

SessionNext ==
    \/ \E n \in NameInputs : TypeName(n)
    \/ ClickContinue
    \/ RerunAfterLogin
    \/ \E w \in Widgets : Interact(w)

SessionSpec == SessionInit /\ [][SessionNext]_vars

----------------------------------------------------------------------------
(* Claims about check_compliance *)

\* a text is clean when no prohibited term occurs in its lower-cased form
NoTermOccurs(t) == \A term \in prohibited_terms : ~Contains(term, lower(t))

\* some allow-list phrase occurs in the lower-cased text and contains the term
Excused(term, t) ==
    \E category \in DOMAIN allowed_contexts :
        \E phrase \in allowed_contexts[category] :
            Contains(phrase, lower(t)) /\ Contains(term, phrase)

\* C7: for every text (the empty one included) in which no prohibited term
\* occurs as a substring of the lower-cased text, check_compliance returns
\* compliant = true, no violations and severity 'none'.
C7_CleanTextCompliant ==
    (verdict # NoVerdict /\ NoTermOccurs(text)) =>
        /\ verdict.compliant
        /\ verdict.violations = {}
        /\ verdict.severity = "none"

C7_Witness ==
    /\ verdict # NoVerdict
    /\ text # TxtEmpty
    /\ NoTermOccurs(text)
    /\ verdict.compliant

\* C8: every text that contains a term of the high-severity set which no
\* allow-list phrase excuses is reported with severity 'high' and
\* compliant = false.
C8_HighSeverityTermIsHigh ==
    verdict # NoVerdict =>
        \A term \in high_severity :
            (Contains(term, lower(text)) /\ ~Excused(term, text)) =>
                (verdict.severity = "high" /\ ~verdict.compliant)

\* C9: a prohibited term that occurs in the lower-cased text is left out of
\* violations if and only if some allow-list phrase occurs in the text and
\* contains the term, wherever the phrase occurs; and 'experience' is not
\* reported for '5 years of experience with Java'.
C9_ExcusedIffAllowPhrase ==
    verdict # NoVerdict =>
        /\ \A term \in prohibited_terms :
              Contains(term, lower(text)) =>
                  ((term \notin verdict.violations) <=> Excused(term, text))
        /\ (text = TxtYearsJava => TermExperience \notin verdict.violations)

C9_Witness ==
    /\ verdict # NoVerdict
    /\ Contains(TxtNativeSpeaker, lower(text))
    /\ Contains(TxtNativeApp, lower(text))
    /\ TermNative \notin verdict.violations

\* C10: a text that contains 'team player' or 'enthusiastic' is reported
\* non-compliant, with severity 'low' or 'high'.
C10_SoftSkillPhraseFlagged ==
    (/\ verdict # NoVerdict
     /\ \/ Contains(TxtTeamPlayer, lower(text))
        \/ Contains(TxtEnthusiastic, lower(text))) =>
        (~verdict.compliant /\ verdict.severity \in {"low", "high"})

\* C18: the verdict of check_compliance is consistent: compliant exactly
\* when violations is empty, every term at most once in violations, severity
\* 'none' exactly when violations is empty, 'high' exactly when a violation
\* is in the high-severity set, 'low' otherwise.
C18_VerdictConsistent ==
    verdict # NoVerdict =>
        /\ verdict.compliant <=> verdict.violations = {}
        /\ DOMAIN appended = verdict.violations
        /\ \A term \in DOMAIN appended : appended[term] = 1
        /\ verdict.severity = "none" <=> verdict.violations = {}
        /\ verdict.severity = "high" <=>
              verdict.violations \cap high_severity # {}
        /\ verdict.severity = "low" <=>
              /\ verdict.violations # {}
              /\ verdict.violations \cap high_severity = {}

C18_Witness ==
    /\ verdict # NoVerdict
    /\ verdict.severity = "high"
    /\ verdict.violations \ high_severity # {}

\* number of line breaks of a text
Newlines(s) == Cardinality({ i \in 1..Len(s) : s[i] = "\n" })

\* C19: sanitize_feedback returns a text with as many lines as its input, in
\* which every line that holds a prohibited term (case-insensitively, excused
\* by the allow-list or not) is replaced by the placeholder and every other
\* line is unchanged and in its place.
C19_SanitizeLineByLine ==
    sanitized # None =>
        LET before == split_lines(text)
            after  == split_lines(sanitized[1])
        IN  /\ Newlines(sanitized[1]) = Newlines(text)
            /\ Len(after) = Len(before)
            /\ \A i \in 1..Len(before) :
                  IF \E term \in prohibited_terms :
                         Contains(term, lower(before[i]))
                  THEN after[i] = Placeholder
                  ELSE after[i] = before[i]

C19_Witness ==
    /\ sanitized # None
    /\ Newlines(text) >= 1
    /\ \E i \in 1..Len(split_lines(text)) :
          /\ split_lines(sanitized[1])[i] = Placeholder
          /\ check_compliance(split_lines(text)[i]).compliant
    /\ \E i \in 1..Len(split_lines(text)) :
          /\ split_lines(text)[i] # <<>>
          /\ split_lines(sanitized[1])[i] = split_lines(text)[i]

\* C22: the text sanitize_feedback returns passes check_compliance with no
\* violation, and sanitizing it again returns it unchanged; the placeholder
\* holds no prohibited term.
C22_SanitizedTextCompliant ==
    /\ \A term \in prohibited_terms : ~Contains(term, lower(Placeholder))
    /\ sanitized # None =>
          /\ check_compliance(sanitized[1]).compliant
          /\ check_compliance(sanitized[1]).violations = {}
          /\ sanitize_feedback(sanitized[1]) = sanitized[1]

\* a non-compliant text of several lines of which one was replaced
C22_Witness ==
    /\ sanitized # None
    /\ Newlines(text) >= 1
    /\ ~check_compliance(text).compliant
    /\ sanitized[1] # text
    /\ \E i \in 1..Len(split_lines(sanitized[1])) :
          split_lines(sanitized[1])[i] = Placeholder

\* a prohibited term cut in two by a line break is on no line: the text is
\* returned as it is and passes the screener
C22_TermAcrossLineBreak ==
    /\ sanitized # None
    /\ text = TxtTeamBreakPlayer
    /\ sanitized[1] = text
    /\ check_compliance(text).compliant

----------------------------------------------------------------------------
(* Claims about generate_compliant_feedback_for_recruiter *)

Calls == Len(sent)

\* the k-th generation call returned a text that fails screening
NonCompliantReply(k) ==
    /\ sent[k].reply # None
    /\ ~check_compliance(sent[k].reply[1]).compliant

\* every call issued so far returned a text that fails screening
AllRepliesNonCompliant == \A k \in 1..Calls : NonCompliantReply(k)

\* C1: whatever the generation service does, an invocation with retry limit
\* max_retries issues at most max_retries + 1 generation calls.
C1_RetryBound == pc # "idle" => Calls <= max_retries + 1

C1_Witness ==
    /\ pc = "returned"
    /\ max_retries = DefaultMaxRetries
    /\ Calls = max_retries + 1
    /\ AllRepliesNonCompliant

\* C2: when a result with a feedback text is returned, its compliant,
\* violations, severity and recommendation are what check_compliance yields
\* on that very text, not on the text of an earlier attempt.
C2_VerdictOfReturnedText ==
    (pc = "returned" /\ result.feedback # None) =>
        LET v == check_compliance(result.feedback[1])
        IN  /\ result.compliant = v.compliant
            /\ result.violations = v.violations
            /\ result.severity = v.severity
            /\ result.recommendation = v.recommendation

C2_Witness ==
    /\ pc = "returned"
    /\ result.feedback # None
    /\ ~result.compliant
    /\ Calls >= 2
    /\ check_compliance(sent[1].reply[1]) # check_compliance(result.feedback[1])

\* C3: if all max_retries + 1 calls succeed and each returns a text that
\* fails screening, the result carries the text of the last call, with
\* compliant = false and that text's non-empty violations.
C3_ExhaustedReturnsLastText ==
    (/\ pc = "returned"
     /\ Calls >= 1
     /\ Calls = max_retries + 1
     /\ AllRepliesNonCompliant) =>
        /\ result.feedback = sent[Calls].reply
        /\ ~result.compliant
        /\ result.violations = check_compliance(sent[Calls].reply[1]).violations
        /\ result.violations # {}

C3_Witness ==
    /\ pc = "returned"
    /\ Calls = max_retries + 1
    /\ Calls >= 2
    /\ AllRepliesNonCompliant
    /\ sent[Calls].reply # sent[1].reply
    /\ result.feedback = sent[Calls].reply

\* C4: a generation call that fails is the last call of its invocation, and
\* the result has no feedback, compliant = false and an error message; no
\* text of an earlier attempt is returned.
C4_TransportFailureIsTerminal ==
    \A k \in 1..Calls :
        sent[k].reply = None =>
            /\ k = Calls
            /\ pc = "returned"
            /\ result.feedback = None
            /\ ~result.compliant
            /\ result.error # NoError

C4_Witness ==
    /\ pc = "returned"
    /\ Calls >= 2
    /\ sent[Calls].reply = None
    /\ NonCompliantReply(1)
    /\ result.feedback = None

----------------------------------------------------------------------------
(* Claims about the feedback tab *)

\* the invocation gave up after max_retries + 1 non-compliant texts
Exhausted ==
    /\ pc = "returned"
    /\ Calls = max_retries + 1
    /\ Calls >= 1
    /\ NonCompliantReply(Calls)

\* the invocation ended on a generation call that failed
TransportFailed ==
    /\ pc = "returned"
    /\ Calls >= 1
    /\ sent[Calls].reply = None

\* C5: a displayed draft always comes with the compliance banner, and the
\* 'Passed' banner is shown only when check_compliance finds the displayed
\* draft compliant: never for a draft returned after the retries were used
\* up, never for a transport failure.
C5_PassedOnlyWhenCompliant ==
    /\ display.draft # None => display.status # "none"
    /\ display.status = "Passed" =>
          /\ display.draft # None =>
                check_compliance(display.draft[1]).compliant
          /\ ~Exhausted
          /\ ~TransportFailed

C5_Witness ==
    /\ display.status = "Passed"
    /\ display.draft # None
    /\ Calls >= 2
    /\ NonCompliantReply(1)

\* C6: in every render of the feedback tab the download control and the
\* 'Mark as ready to send' control are offered only if all six checklist
\* items are checked in that render.
C6_ExportOnlyWhenAllChecked ==
    (display.download \/ display.mark_ready) =>
        /\ display.draft # None
        /\ \A i \in ChecklistItems : display.ticked[i]

C6_Witness ==
    /\ display.draft # None
    /\ display.checklist
    /\ \E i \in ChecklistItems : ~display.ticked[i]
    /\ ~display.download
    /\ ~display.mark_ready

\* C23: once a draft is displayed, ticking a checklist item leads to a render
\* in which the same draft and the checklist are still displayed, and in which
\* the 'All review items confirmed' state and the download control are shown
\* as soon as all six items are ticked.
C23_TickKeepsDraftAndConfirms ==
    [][ (\E i \in ChecklistItems : TickCheckbox(i)) =>
            /\ display'.draft = display.draft
            /\ display'.checklist
            /\ (\A i \in ChecklistItems : checks'[i]) =>
                  (display'.confirmed /\ display'.download) ]_vars

----------------------------------------------------------------------------
(* Claims about the course of one invocation of the generator *)

\* attempts are sequential: every call but the last returned a text that was
\* screened and found non-compliant while retries were left
Sequential ==
    \A k \in 1..(Calls - 1) : NonCompliantReply(k) /\ k - 1 < max_retries

\* ACCEPTED: the last call's text is compliant and is returned as such
StateACCEPTED ==
    /\ Calls >= 1
    /\ sent[Calls].reply # None
    /\ check_compliance(sent[Calls].reply[1]).compliant
    /\ result.feedback = sent[Calls].reply
    /\ result.compliant
    /\ result.error = NoError

\* EXHAUSTED: the last of max_retries + 1 calls returned a non-compliant
\* text, which is returned as non-compliant
StateEXHAUSTED ==
    /\ Calls >= 1
    /\ Calls = max_retries + 1
    /\ NonCompliantReply(Calls)
    /\ result.feedback = sent[Calls].reply
    /\ ~result.compliant
    /\ result.error = NoError

\* TRANSPORT_FAILED: the last call failed and an error is returned
StateTRANSPORT_FAILED ==
    /\ Calls >= 1
    /\ sent[Calls].reply = None
    /\ result.feedback = None
    /\ ~result.compliant
    /\ result.error = api_error_result.error

ExactlyOne(a, b, c) ==
    \/ a /\ ~b /\ ~c
    \/ ~a /\ b /\ ~c
    \/ ~a /\ ~b /\ c

\* C16 as stated: for every integer max_retries the attempts are sequential
\* and the invocation ends in exactly one of ACCEPTED, EXHAUSTED and
\* TRANSPORT_FAILED.
C16_StateMachineEveryLimit ==
    /\ Sequential
    /\ pc = "returned" =>
          ExactlyOne(StateACCEPTED, StateEXHAUSTED, StateTRANSPORT_FAILED)

\* C16 as amended: for every max_retries >= 0 the attempts are sequential and
\* the invocation ends in exactly one of ACCEPTED, EXHAUSTED and
\* TRANSPORT_FAILED; for max_retries < 0 no generation call is issued and the
\* invocation returns the result of lines 326-333 (no feedback, an error).
C16_StateMachine ==
    /\ Sequential
    /\ (pc = "returned" /\ max_retries >= 0) =>
          ExactlyOne(StateACCEPTED, StateEXHAUSTED, StateTRANSPORT_FAILED)
    /\ (pc # "idle" /\ max_retries < 0) => Calls = 0
    /\ (pc = "returned" /\ max_retries < 0) => result = fallthrough_result

C16_Witness ==
    /\ pc = "returned"
    /\ Calls >= 2
    /\ StateEXHAUSTED

\* C17: the system prompt of attempt k >= 1 is the one of attempt k-1 with a
\* clause appended that lists exactly the violations of attempt k-1's text,
\* so it holds the clauses of all earlier attempts; the user prompt is the
\* same on every attempt.
C17_CumulativeEscalation ==
    /\ \A k \in 1..Calls : sent[k].user = sent[1].user
    /\ Calls >= 1 => sent[1].system = <<>>
    /\ \A k \in 2..Calls :
          /\ sent[k - 1].reply # None
          /\ sent[k].system =
                Append(sent[k - 1].system,
                       check_compliance(sent[k - 1].reply[1]).violations)
    /\ \A k \in 1..Calls : Len(sent[k].system) = k - 1

C17_Witness ==
    /\ Calls = 3
    /\ Len(sent[3].system) = 2
    /\ sent[3].system[1] # sent[3].system[2]

----------------------------------------------------------------------------
(* Claims about rank_candidates *)

IsEmbedding(call) == call.service = "embedding"
EmbeddingCalls == SelectSeq(service_log, IsEmbedding)

\* C11: rank_candidates returns a permutation of its input candidates in
\* descending order of score, candidates of equal score in input order; so
\* with pairwise distinct scores the order does not depend on the input order.
C11_StableDescendingRanking ==
    rank_pc = "returned" =>
        LET out == ranking[1]
            n   == Len(candidates_data)
        IN  /\ Len(out) = n
            /\ \E p \in Permutations(1..n) :
                  /\ \A k \in 1..n :
                        /\ out[k] = results[p[k]]
                        /\ out[k].name = candidates_data[p[k]].name
                        /\ out[k].resume = candidates_data[p[k]].resume
                  /\ \A k, l \in 1..n :
                        k < l =>
                            \/ results[p[k]].score > results[p[l]].score
                            \/ /\ results[p[k]].score = results[p[l]].score
                               /\ p[k] < p[l]
            /\ (\A i, j \in 1..n : i # j => results[i].score # results[j].score)
                  => \A k \in 1..(n - 1) : out[k].score > out[k + 1].score

C11_Witness ==
    /\ rank_pc = "returned"
    /\ Len(candidates_data) = 3
    /\ results[1].score < results[2].score
    /\ results[2].score = results[3].score
    /\ results[2].name # results[3].name
    /\ ranking[1] = << results[2], results[3], results[1] >>

\* C20: rank_candidates embeds the job description once, before any resume,
\* then every candidate's resume once, in input order (n + 1 calls); when an
\* embedding call fails, no further call is issued and nothing is returned.
C20_EmbeddingOrderAndAbort ==
    LET calls == EmbeddingCalls
        n     == Len(candidates_data)
    IN  rank_pc # "idle" =>
        /\ Len(calls) <= n + 1
        /\ \A k \in 1..Len(calls) :
              IF k = 1
              THEN calls[k].of = "job_description"
                   /\ calls[k].text = job_description
              ELSE calls[k].of = "resume"
                   /\ calls[k].index = k - 1
                   /\ calls[k].text = candidates_data[k - 1].resume
        /\ \A k \in 1..Len(calls) :
              ~calls[k].ok =>
                  k = Len(calls) /\ rank_pc = "raised" /\ ranking = None
        /\ rank_pc = "raised" => ranking = None
        /\ rank_pc = "returned" =>
              Len(calls) = n + 1 /\ \A k \in 1..Len(calls) : calls[k].ok

C20_Witness ==
    /\ rank_pc = "raised"
    /\ Len(candidates_data) = 3
    /\ Len(EmbeddingCalls) = 2
    /\ ~EmbeddingCalls[2].ok
    /\ ranking = None

----------------------------------------------------------------------------
(* Claims about the ranking run *)

\* C12: no cleaning, embedding or generation call is issued by an operation
\* that is given a blank job description or no valid resume.
C12_NoCallOnDegenerateInput ==
    /\ Calls >= 1 => ~IsBlank(job_description)
    /\ service_log # <<>> => ~IsBlank(job_description)
    /\ EmbeddingCalls # <<>> => candidates_data # <<>>

\* the file is of a supported type and its text is extracted
GoodFile(file) ==
    file_kind(file.name) # "unsupported" /\ file.content = "text"

\* the file is of an unsupported type or its extraction fails
BadFile(file) ==
    file_kind(file.name) = "unsupported" \/ file.content = "corrupt"

Ranked(name) ==
    /\ ranked_data # None
    /\ \E k \in 1..Len(ranked_data[1]) : ranked_data[1][k].name = name

\* C13: in a ranking run a file of unsupported format or whose extraction
\* fails is skipped with a warning, and every other file is still processed
\* and ranked (as long as no embedding call fails).
C13_BadFileSkippedBatchContinues ==
    (/\ run_pc \in { "done", "crashed" }
     /\ \A k \in 1..Len(EmbeddingCalls) : EmbeddingCalls[k].ok) =>
        /\ run_pc = "done"
        /\ \A i \in 1..Len(uploaded_files) :
              /\ GoodFile(uploaded_files[i]) => Ranked(uploaded_files[i].name)
              /\ BadFile(uploaded_files[i]) =>
                    uploaded_files[i].name \in warnings

\* C14: the error-annotated string clean_and_structure_resume returns on a
\* transport failure is never used as a candidate's resume text: it is not
\* put on the candidate list, embedded or ranked.
C14_CleaningErrorNeverUsedAsResume ==
    /\ \A k \in 1..Len(candidate_list_for_ranking) :
          candidate_list_for_ranking[k].resume # CleaningError
    /\ \A k \in 1..Len(EmbeddingCalls) :
          EmbeddingCalls[k].of = "resume" =>
              EmbeddingCalls[k].text # CleaningError
    /\ ranked_data # None =>
          \A k \in 1..Len(ranked_data[1]) :
              ranked_data[1][k].resume # CleaningError

\* C15: the candidate names of a stored ranking are pairwise distinct.
C15_RankedNamesDistinct ==
    ranked_data # None =>
        \A i, j \in 1..Len(ranked_data[1]) :
            i # j => ranked_data[1][i].name # ranked_data[1][j].name

----------------------------------------------------------------------------
(* Claims about the session *)

\* C21: a session that is authenticated stays authenticated under the same
\* user name, has a role, and keeps ranked_data and job_description through
\* every script run that the Logout button did not start.
C21_SessionKeptUntilLogout ==
    [][ (auth.is_authenticated /\ trigger' # "Logout") =>
            /\ auth'.is_authenticated
            /\ auth'.user_name = auth.user_name
            /\ auth'.role # NoRole
            /\ ranked_data' = ranked_data
            /\ job_description' = job_description ]_vars

====
